---- MODULE Spec2Model ----
(***************************************************************************)
(* The persistent data model of core/models.py (Django ORM) as a state     *)
(* machine.  Every table is a function from primary key to row; the        *)
(* operations are the ORM's row operations on the declared models:         *)
(* Model.objects.create(...), instance.save() and instance.delete().       *)
(* What an operation enforces is exactly what the field declarations       *)
(* state: unique=True, OneToOneField, and the on_delete rule of each       *)
(* foreign key.  Money is kept in hundredths (DecimalField with            *)
(* decimal_places=2), dates as day numbers (DateField).                    *)
(***************************************************************************)
EXTENDS Integers, FiniteSets, Sequences, TLC

VARIABLES users, farmers, operators, equipment, images, logs,
          bookings, payments, payouts, nextPk, result

vars == <<users, farmers, operators, equipment, images, logs,
          bookings, payments, payouts, nextPk, result>>

(* ------------------------------ bounds --------------------------------- *)
\* rows ever created per table, where a run creates them
MaxBookings == 2
MaxListedEquipment == 1
MaxImages == 1
MaxLogs == 1
MaxProtectingBookings == 1
MaxPayments == 3
MaxPayouts == 3
MaxDay == 2
MaxTx == 2

Days == 1..MaxDay
TxIds == 1..MaxTx
\* payment amounts in hundredths: 1.00 and 2.00
Amounts == {100, 200}
\* total_amount of a booking in the ledger runs: 2.00
LedgerTotal == 200
\* amounts offered to a payout, in hundredths: gross 10000.00,
\* fee 0.00 or 1000.00, net 9000.00 or 10000.00
PayoutTotal == 1000000
GrossAmounts == {1000000}
FeeAmounts == {0, 100000}
NetAmounts == {900000, 1000000}

(* ------------------------------ choices -------------------------------- *)
EquipmentStatus == {"available", "rented", "maintenance", "inactive"}
BookingStatus == {"pending", "confirmed", "in_progress", "completed",
                  "cancelled_farmer", "cancelled_operator", "disputed"}
PaymentStatus == {"unpaid", "deposit_paid", "fully_paid", "refunded"}
PaymentType == {"deposit", "final", "refund"}
PayoutStatus == {"pending", "processing", "paid", "failed"}

\* field defaults
EquipmentStatusDefault == "available"
BookingStatusDefault == "pending"
PaymentStatusDefault == "unpaid"
PayoutStatusDefault == "pending"
PlatformFeePercentDefault == 1000

(* --------------------------- table helpers ----------------------------- *)
EmptyTable == [k \in {} |-> k]
Insert(table, pk, row) ==
    [k \in (DOMAIN table) \cup {pk} |-> IF k = pk THEN row ELSE table[k]]
Update(table, pk, row) == [table EXCEPT ![pk] = row]
Remove(table, pks) == [k \in (DOMAIN table) \ pks |-> table[k]]
Bump(field) == [nextPk EXCEPT ![field] = @ + 1]

\* what the last operation was and how it ended: "ok", or the exception
\* the ORM raised
Outcome(op, how) == [op |-> op, outcome |-> how]
\* the same for instance.delete(), with the primary key of the instance
DeleteOutcome(op, pk, how) == [op |-> op, outcome |-> how, pk |-> pk]

FirstPk == [users |-> 1, farmers |-> 1, operators |-> 1, equipment |-> 1,
            images |-> 1, logs |-> 1, bookings |-> 1, payments |-> 1,
            payouts |-> 1]

(* ------------------------------ bookings ------------------------------- *)
\* RentalBooking.objects.create(...): status and payment_status take their
\* defaults; the dates are two independent DateFields.
CreateBooking(f, e, op, s, t, total) ==
    /\ bookings' = Insert(bookings, nextPk.bookings,
                          [farmer |-> f, equipment |-> e, operator |-> op,
                           requested_start_date |-> s,
                           requested_end_date |-> t,
                           total_amount |-> total,
                           status |-> BookingStatusDefault,
                           payment_status |-> PaymentStatusDefault])
    /\ nextPk' = Bump("bookings")
    /\ result' = Outcome("CreateBooking", "ok")
    /\ UNCHANGED <<users, farmers, operators, equipment, images, logs,
                   payments, payouts>>

\* booking.status = st; booking.save()
SaveBookingStatus(b, st) ==
    /\ b \in DOMAIN bookings
    /\ bookings' = Update(bookings, b, [bookings[b] EXCEPT !.status = st])
    /\ result' = Outcome("SaveBookingStatus", "ok")
    /\ UNCHANGED <<users, farmers, operators, equipment, images, logs,
                   payments, payouts, nextPk>>

\* booking.requested_start_date = s; booking.requested_end_date = t; save()
SaveBookingDates(b, s, t) ==
    /\ b \in DOMAIN bookings
    /\ bookings' = Update(bookings, b,
                          [bookings[b] EXCEPT !.requested_start_date = s,
                                              !.requested_end_date = t])
    /\ result' = Outcome("SaveBookingDates", "ok")
    /\ UNCHANGED <<users, farmers, operators, equipment, images, logs,
                   payments, payouts, nextPk>>

\* booking.payment_status = ps; booking.save()
SaveBookingPaymentStatus(b, ps) ==
    /\ b \in DOMAIN bookings
    /\ bookings' = Update(bookings, b,
                          [bookings[b] EXCEPT !.payment_status = ps])
    /\ result' = Outcome("SaveBookingPaymentStatus", "ok")
    /\ UNCHANGED <<users, farmers, operators, equipment, images, logs,
                   payments, payouts, nextPk>>

\* equipment.status = st; equipment.save()
SaveEquipmentStatus(e, st) ==
    /\ e \in DOMAIN equipment
    /\ equipment' = Update(equipment, e, [equipment[e] EXCEPT !.status = st])
    /\ result' = Outcome("SaveEquipmentStatus", "ok")
    /\ UNCHANGED <<users, farmers, operators, images, logs, bookings,
                   payments, payouts, nextPk>>

(* ------------------- the booking lifecycle, seeded --------------------- *)
\* one farmer (user 1), one operator (user 2) owning two equipment units
SeedUsers == {1, 2}
SeedFarmers == Insert(EmptyTable, 1, [user |-> 1])
SeedOperators == Insert(EmptyTable, 1, [user |-> 2])
SeedEquipment ==
    [e \in {1, 2} |-> [owner |-> 1, status |-> EquipmentStatusDefault]]

InitBooking ==
    /\ users = SeedUsers
    /\ farmers = SeedFarmers
    /\ operators = SeedOperators
    /\ equipment = SeedEquipment
    /\ images = EmptyTable
    /\ logs = EmptyTable
    /\ bookings = EmptyTable
    /\ payments = EmptyTable
    /\ payouts = EmptyTable
    /\ nextPk = [FirstPk EXCEPT !.users = 3, !.farmers = 2, !.operators = 2,
                                !.equipment = 3]
    /\ result = Outcome("none", "ok")

NextBooking ==
    \/ \E f \in DOMAIN farmers, e \in DOMAIN equipment,
          op \in DOMAIN operators, s \in Days, t \in Days :
          /\ nextPk.bookings <= MaxBookings
          /\ CreateBooking(f, e, op, s, t, LedgerTotal)
    \/ \E b \in DOMAIN bookings, st \in BookingStatus :
          SaveBookingStatus(b, st)
    \/ \E b \in DOMAIN bookings, s \in Days, t \in Days :
          SaveBookingDates(b, s, t)
    \/ \E e \in DOMAIN equipment, st \in EquipmentStatus :
          SaveEquipmentStatus(e, st)

SpecBooking == InitBooking /\ [][NextBooking]_vars

(* C1: no two bookings on the same equipment that are both in a            *)
(* non-cancelled, non-completed status (pending, confirmed, in_progress,   *)
(* disputed) have intersecting requested date ranges.                      *)
ActiveStatus == {"pending", "confirmed", "in_progress", "disputed"}
RangesIntersect(x, y) ==
    /\ x.requested_start_date <= y.requested_end_date
    /\ y.requested_start_date <= x.requested_end_date
C1_NoOverlappingActiveBookings ==
    \A a, b \in DOMAIN bookings :
        (/\ a # b
         /\ bookings[a].equipment = bookings[b].equipment
         /\ bookings[a].status \in ActiveStatus
         /\ bookings[b].status \in ActiveStatus)
        => ~RangesIntersect(bookings[a], bookings[b])

(* C2: once a booking's status is completed, cancelled_farmer,             *)
(* cancelled_operator or disputed, no later step changes it.               *)
TerminalStatus == {"completed", "cancelled_farmer", "cancelled_operator",
                   "disputed"}
C2_TerminalStatusIsFinal ==
    [][\A b \in (DOMAIN bookings) \cap (DOMAIN bookings') :
          bookings[b].status \in TerminalStatus
          => bookings'[b].status = bookings[b].status]_vars

(* C3: an equipment unit with a booking in confirmed or in_progress has    *)
(* status rented, and when such a booking moves to completed or a          *)
(* cancelled status the equipment's status is available again.             *)
HoldingStatus == {"confirmed", "in_progress"}
ReleasedStatus == {"completed", "cancelled_farmer", "cancelled_operator"}
C3_RentedWhileHeld ==
    \A b \in DOMAIN bookings :
        bookings[b].status \in HoldingStatus
        => equipment[bookings[b].equipment].status = "rented"
C3_EquipmentStatusFollowsBookings ==
    /\ []C3_RentedWhileHeld
    /\ [][\A b \in (DOMAIN bookings) \cap (DOMAIN bookings') :
             (/\ bookings[b].status \in HoldingStatus
              /\ bookings'[b].status \in ReleasedStatus)
             => equipment'[bookings'[b].equipment].status = "available"]_vars

(* C9: every stored booking has requested_end_date >= requested_start_date *)
C9_EndNotBeforeStart ==
    \A b \in DOMAIN bookings :
        bookings[b].requested_end_date >= bookings[b].requested_start_date

(* ------------------------------ payments ------------------------------- *)
\* the bookings already stored when the ledger and payout runs start
SeedBookings(total) ==
    [b \in {1, 2} |-> [farmer |-> 1, equipment |-> b, operator |-> 1,
                       requested_start_date |-> 1,
                       requested_end_date |-> 1,
                       total_amount |-> total,
                       status |-> BookingStatusDefault,
                       payment_status |-> PaymentStatusDefault]]

\* the column without its unique index
TransactionIdNotUnique == FALSE
\* Payment.transaction_id is declared unique=True
TransactionIdUnique == TRUE

\* the unique index on transaction_id: no row other than pk holds tx
TransactionIdFree(pk, tx) ==
    TransactionIdUnique =>
        \A q \in (DOMAIN payments) \ {pk} : payments[q].transaction_id # tx

\* Payment.objects.create(booking=b, amount=amt, payment_type=ty,
\*                        transaction_id=tx, is_confirmed=conf)
CreatePayment(b, amt, ty, tx, conf) ==
    /\ b \in DOMAIN bookings
    /\ IF TransactionIdFree(nextPk.payments, tx)
       THEN /\ payments' = Insert(payments, nextPk.payments,
                                  [booking |-> b, amount |-> amt,
                                   payment_type |-> ty,
                                   transaction_id |-> tx,
                                   is_confirmed |-> conf])
            /\ nextPk' = Bump("payments")
            /\ result' = Outcome("CreatePayment", "ok")
       ELSE /\ result' = Outcome("CreatePayment", "IntegrityError")
            /\ UNCHANGED <<payments, nextPk>>
    /\ UNCHANGED <<users, farmers, operators, equipment, images, logs,
                   bookings, payouts>>

\* payment.transaction_id = tx; payment.is_confirmed = conf; payment.save()
SavePayment(p, tx, conf) ==
    /\ p \in DOMAIN payments
    /\ IF TransactionIdFree(p, tx)
       THEN /\ payments' = Update(payments, p,
                                  [payments[p] EXCEPT !.transaction_id = tx,
                                                      !.is_confirmed = conf])
            /\ result' = Outcome("SavePayment", "ok")
       ELSE /\ result' = Outcome("SavePayment", "IntegrityError")
            /\ UNCHANGED payments
    /\ UNCHANGED <<users, farmers, operators, equipment, images, logs,
                   bookings, payouts, nextPk>>

InitLedger ==
    /\ users = SeedUsers
    /\ farmers = SeedFarmers
    /\ operators = SeedOperators
    /\ equipment = SeedEquipment
    /\ images = EmptyTable
    /\ logs = EmptyTable
    /\ bookings = SeedBookings(LedgerTotal)
    /\ payments = EmptyTable
    /\ payouts = EmptyTable
    /\ nextPk = [FirstPk EXCEPT !.users = 3, !.farmers = 2, !.operators = 2,
                                !.equipment = 3, !.bookings = 3]
    /\ result = Outcome("none", "ok")

NextLedger ==
    \/ \E b \in DOMAIN bookings, amt \in Amounts, ty \in PaymentType,
          tx \in TxIds, conf \in BOOLEAN :
          /\ nextPk.payments <= MaxPayments
          /\ CreatePayment(b, amt, ty, tx, conf)
    \/ \E p \in DOMAIN payments, tx \in TxIds, conf \in BOOLEAN :
          SavePayment(p, tx, conf)
    \/ \E b \in DOMAIN bookings, ps \in PaymentStatus :
          SaveBookingPaymentStatus(b, ps)

SpecLedger == InitLedger /\ [][NextLedger]_vars

\* the payment table alone
NextPayment ==
    \/ \E b \in DOMAIN bookings, amt \in Amounts, ty \in PaymentType,
          tx \in TxIds, conf \in BOOLEAN :
          /\ nextPk.payments <= MaxPayments
          /\ CreatePayment(b, amt, ty, tx, conf)
    \/ \E p \in DOMAIN payments, tx \in TxIds, conf \in BOOLEAN :
          SavePayment(p, tx, conf)

SpecPayment == InitLedger /\ [][NextPayment]_vars

(* C4: the stored payment_status of every booking equals the value         *)
(* recomputed from its confirmed payments: paid = deposits + finals -      *)
(* refunds; refunded if a refund fully reverses prior payment, unpaid if   *)
(* paid = 0, deposit_paid if 0 < paid < total_amount, fully_paid if        *)
(* paid >= total_amount.                                                   *)
RECURSIVE SumAmounts(_)
SumAmounts(ps) ==
    IF ps = {} THEN 0
    ELSE LET p == CHOOSE q \in ps : TRUE
         IN payments[p].amount + SumAmounts(ps \ {p})
ConfirmedOf(b, types) ==
    {p \in DOMAIN payments : /\ payments[p].booking = b
                             /\ payments[p].is_confirmed
                             /\ payments[p].payment_type \in types}
PaidIn(b) == SumAmounts(ConfirmedOf(b, {"deposit", "final"}))
Refunded(b) == SumAmounts(ConfirmedOf(b, {"refund"}))
RecomputedPaymentStatus(b) ==
    LET paid == PaidIn(b) - Refunded(b)
    IN IF PaidIn(b) > 0 /\ Refunded(b) >= PaidIn(b) THEN "refunded"
       ELSE IF paid <= 0 THEN "unpaid"
       ELSE IF paid < bookings[b].total_amount THEN "deposit_paid"
       ELSE "fully_paid"
C4_PaymentStatusMatchesLedger ==
    \A b \in DOMAIN bookings :
        bookings[b].payment_status = RecomputedPaymentStatus(b)

(* C5: no two stored payments share a transaction id, and a create or save *)
(* that the database refuses leaves the payment records as they were.      *)
C5_DistinctTransactionIds ==
    \A p, q \in DOMAIN payments :
        p # q => payments[p].transaction_id # payments[q].transaction_id
PayoutBookingForeignKey == FALSE
\* OperatorPayout.booking is a OneToOneField: a unique index on booking_id
PayoutBookingOneToOne == TRUE

\* the unique index on booking_id: no row other than pk points at b
PayoutBookingFree(pk, b) ==
    PayoutBookingOneToOne =>
        \A q \in (DOMAIN payouts) \ {pk} : payouts[q].booking # b

\* OperatorPayout.objects.create(operator=op, booking=b, gross_amount=gross,
\*     platform_fee_percent=pct, platform_fee_amount=fee, net_amount=net)
\* The four amounts are four independent DecimalFields; status takes its
\* default.
CreatePayout(op, b, gross, pct, fee, net) ==
    /\ op \in DOMAIN operators
    /\ b \in DOMAIN bookings
    /\ IF PayoutBookingFree(nextPk.payouts, b)
       THEN /\ payouts' = Insert(payouts, nextPk.payouts,
                                 [operator |-> op, booking |-> b,
                                  gross_amount |-> gross,
                                  platform_fee_percent |-> pct,
                                  platform_fee_amount |-> fee,
                                  net_amount |-> net,
                                  status |-> PayoutStatusDefault])
            /\ nextPk' = Bump("payouts")
            /\ result' = Outcome("CreatePayout", "ok")
       ELSE /\ result' = Outcome("CreatePayout", "IntegrityError")
            /\ UNCHANGED <<payouts, nextPk>>
    /\ UNCHANGED <<users, farmers, operators, equipment, images, logs,
                   bookings, payments>>

\* payout.booking = b; payout.status = st; payout.save()
SavePayout(p, b, st) ==
    /\ p \in DOMAIN payouts
    /\ b \in DOMAIN bookings
    /\ IF PayoutBookingFree(p, b)
       THEN /\ payouts' = Update(payouts, p,
                                 [payouts[p] EXCEPT !.booking = b,
                                                    !.status = st])
            /\ result' = Outcome("SavePayout", "ok")
       ELSE /\ result' = Outcome("SavePayout", "IntegrityError")
            /\ UNCHANGED payouts
    /\ UNCHANGED <<users, farmers, operators, equipment, images, logs,
                   bookings, payments, nextPk>>

InitPayout ==
    /\ users = SeedUsers
    /\ farmers = SeedFarmers
    /\ operators = SeedOperators
    /\ equipment = SeedEquipment
    /\ images = EmptyTable
    /\ logs = EmptyTable
    /\ bookings = SeedBookings(PayoutTotal)
    /\ payments = EmptyTable
    /\ payouts = EmptyTable
    /\ nextPk = [FirstPk EXCEPT !.users = 3, !.farmers = 2, !.operators = 2,
                                !.equipment = 3, !.bookings = 3]
    /\ result = Outcome("none", "ok")

NextPayout ==
    \/ \E b \in DOMAIN bookings, st \in BookingStatus :
          SaveBookingStatus(b, st)
    \/ \E op \in DOMAIN operators, b \in DOMAIN bookings,
          gross \in GrossAmounts, fee \in FeeAmounts, net \in NetAmounts :
          /\ nextPk.payouts <= MaxPayouts
          /\ CreatePayout(op, b, gross, PlatformFeePercentDefault, fee, net)
    \/ \E p \in DOMAIN payouts, b \in DOMAIN bookings, st \in PayoutStatus :
          SavePayout(p, b, st)

SpecPayout == InitPayout /\ [][NextPayout]_vars

(* C6: each booking has at most one payout, and a create or save the       *)
(* database refuses leaves the payout records as they were.                *)
C6_OnePayoutPerBooking ==
    \A p, q \in DOMAIN payouts :
        p # q => payouts[p].booking # payouts[q].booking
C6_AtMostOnePayoutPerBooking ==
    /\ []C6_OnePayoutPerBooking
    /\ [][result'.outcome = "IntegrityError" => payouts' = payouts]_vars
\* the retry: a second payout for a booking whose payout is failed has just
\* been refused
C6_RetryAfterFailedRefused ==
    /\ result = Outcome("CreatePayout", "IntegrityError")
    /\ DOMAIN payouts = {1}
    /\ payouts[1].status = "failed"

(* C7: every stored payout references a booking whose status is completed  *)
C7_PayoutOnlyForCompleted ==
    \A p \in DOMAIN payouts :
        bookings[payouts[p].booking].status = "completed"

(* C8: every stored payout has platform_fee_amount = gross_amount *         *)
(* platform_fee_percent / 100 rounded to two decimals, and net_amount =    *)
(* gross_amount - platform_fee_amount.                                     *)
\* amounts in hundredths, the percentage in hundredths of a percent
RoundedFee(gross, pct) == (gross * pct + 5000) \div 10000
C8_PayoutAmountsConsistent ==
    \A p \in DOMAIN payouts :
        /\ payouts[p].platform_fee_amount =
              RoundedFee(payouts[p].gross_amount,
                         payouts[p].platform_fee_percent)
        /\ payouts[p].net_amount =
              payouts[p].gross_amount - payouts[p].platform_fee_amount

(* ----------------------- creating the catalog ------------------------- *)
\* Equipment.objects.create(owner=o, ...): status takes its default
CreateEquipment(o) ==
    /\ o \in DOMAIN operators
    /\ equipment' = Insert(equipment, nextPk.equipment,
                           [owner |-> o, status |-> EquipmentStatusDefault])
    /\ nextPk' = Bump("equipment")
    /\ result' = Outcome("CreateEquipment", "ok")
    /\ UNCHANGED <<users, farmers, operators, images, logs, bookings,
                   payments, payouts>>

\* EquipmentImage.objects.create(equipment=e, ...)
CreateEquipmentImage(e) ==
    /\ e \in DOMAIN equipment
    /\ images' = Insert(images, nextPk.images, [equipment |-> e])
    /\ nextPk' = Bump("images")
    /\ result' = Outcome("CreateEquipmentImage", "ok")
    /\ UNCHANGED <<users, farmers, operators, equipment, logs, bookings,
                   payments, payouts>>

\* MaintenanceLog.objects.create(equipment=e, ...)
CreateMaintenanceLog(e) ==
    /\ e \in DOMAIN equipment
    /\ logs' = Insert(logs, nextPk.logs, [equipment |-> e])
    /\ nextPk' = Bump("logs")
    /\ result' = Outcome("CreateMaintenanceLog", "ok")
    /\ UNCHANGED <<users, farmers, operators, equipment, images, bookings,
                   payments, payouts>>

(* ------------------------------ deleting ------------------------------- *)
\* the on_delete rule of each foreign key
FarmerUserOnDelete == "CASCADE"
OperatorUserOnDelete == "CASCADE"
EquipmentOwnerOnDelete == "CASCADE"
ImageEquipmentOnDelete == "CASCADE"
LogEquipmentOnDelete == "CASCADE"
BookingFarmerOnDelete == "CASCADE"
\* (RentalBooking.equipment, had it been declared models.CASCADE)
BookingEquipmentCascade == "CASCADE"
BookingEquipmentOnDelete == "PROTECT"
BookingOperatorOnDelete == "PROTECT"
PaymentBookingOnDelete == "CASCADE"
PayoutOperatorOnDelete == "CASCADE"
PayoutBookingOnDelete == "CASCADE"

NoRows == [users |-> {}, farmers |-> {}, operators |-> {}, equipment |-> {},
           images |-> {}, logs |-> {}, bookings |-> {}, payments |-> {},
           payouts |-> {}]

\* the rows of table whose foreign key fk points into targets, when the
\* key's on_delete is rule
Referring(rule, onDelete, table, fk, targets) ==
    IF onDelete = rule
    THEN {k \in DOMAIN table : table[k][fk] \in targets}
    ELSE {}

\* one round of the deletion collector: the rows CASCADE adds to d
CollectStep(d) ==
    [users |-> d.users,
     farmers |-> d.farmers \cup
        Referring("CASCADE", FarmerUserOnDelete, farmers, "user", d.users),
     operators |-> d.operators \cup
        Referring("CASCADE", OperatorUserOnDelete, operators, "user",
                  d.users),
     equipment |-> d.equipment \cup
        Referring("CASCADE", EquipmentOwnerOnDelete, equipment, "owner",
                  d.operators),
     images |-> d.images \cup
        Referring("CASCADE", ImageEquipmentOnDelete, images, "equipment",
                  d.equipment),
     logs |-> d.logs \cup
        Referring("CASCADE", LogEquipmentOnDelete, logs, "equipment",
                  d.equipment),
     bookings |-> d.bookings \cup
        Referring("CASCADE", BookingFarmerOnDelete, bookings, "farmer",
                  d.farmers) \cup
        Referring("CASCADE", BookingEquipmentOnDelete, bookings, "equipment",
                  d.equipment) \cup
        Referring("CASCADE", BookingOperatorOnDelete, bookings, "operator",
                  d.operators),
     payments |-> d.payments \cup
        Referring("CASCADE", PaymentBookingOnDelete, payments, "booking",
                  d.bookings),
     payouts |-> d.payouts \cup
        Referring("CASCADE", PayoutOperatorOnDelete, payouts, "operator",
                  d.operators) \cup
        Referring("CASCADE", PayoutBookingOnDelete, payouts, "booking",
                  d.bookings)]

RECURSIVE Collect(_)
Collect(d) == IF CollectStep(d) = d THEN d ELSE Collect(CollectStep(d))

\* the rows a PROTECT key holds against the collected rows
ProtectedRows(d) ==
    Referring("PROTECT", BookingEquipmentOnDelete, bookings, "equipment",
              d.equipment) \cup
    Referring("PROTECT", BookingOperatorOnDelete, bookings, "operator",
              d.operators)

\* instance.delete(): collect the cascade; a protected row raises
\* ProtectedError before anything is deleted; otherwise every collected
\* row goes in one transaction.
Delete(op, pk, roots) ==
    LET d == Collect(roots)
    IN IF ProtectedRows(d) # {}
       THEN /\ result' = DeleteOutcome(op, pk, "ProtectedError")
            /\ UNCHANGED <<users, farmers, operators, equipment, images,
                           logs, bookings, payments, payouts, nextPk>>
       ELSE /\ users' = users \ d.users
            /\ farmers' = Remove(farmers, d.farmers)
            /\ operators' = Remove(operators, d.operators)
            /\ equipment' = Remove(equipment, d.equipment)
            /\ images' = Remove(images, d.images)
            /\ logs' = Remove(logs, d.logs)
            /\ bookings' = Remove(bookings, d.bookings)
            /\ payments' = Remove(payments, d.payments)
            /\ payouts' = Remove(payouts, d.payouts)
            /\ result' = DeleteOutcome(op, pk, "ok")
            /\ UNCHANGED nextPk

DeleteUser(u) ==
    u \in users /\ Delete("DeleteUser", u, [NoRows EXCEPT !.users = {u}])
DeleteFarmerProfile(f) ==
    f \in DOMAIN farmers
    /\ Delete("DeleteFarmerProfile", f, [NoRows EXCEPT !.farmers = {f}])
DeleteOperatorProfile(o) ==
    o \in DOMAIN operators
    /\ Delete("DeleteOperatorProfile", o, [NoRows EXCEPT !.operators = {o}])
DeleteEquipment(e) ==
    e \in DOMAIN equipment
    /\ Delete("DeleteEquipment", e, [NoRows EXCEPT !.equipment = {e}])
DeleteBooking(b) ==
    b \in DOMAIN bookings
    /\ Delete("DeleteBooking", b, [NoRows EXCEPT !.bookings = {b}])

\* a farmer (user 1) and two operators (users 2 and 3), nothing listed yet
InitDelete ==
    /\ users = {1, 2, 3}
    /\ farmers = SeedFarmers
    /\ operators = [o \in {1, 2} |-> [user |-> o + 1]]
    /\ equipment = EmptyTable
    /\ images = EmptyTable
    /\ logs = EmptyTable
    /\ bookings = EmptyTable
    /\ payments = EmptyTable
    /\ payouts = EmptyTable
    /\ nextPk = [FirstPk EXCEPT !.users = 4, !.farmers = 2, !.operators = 3]
    /\ result = Outcome("none", "ok")

NextDelete ==
    \/ \E o \in DOMAIN operators :
          nextPk.equipment <= MaxListedEquipment /\ CreateEquipment(o)
    \/ \E e \in DOMAIN equipment :
          nextPk.images <= MaxImages /\ CreateEquipmentImage(e)
    \/ \E e \in DOMAIN equipment :
          nextPk.logs <= MaxLogs /\ CreateMaintenanceLog(e)
    \/ \E f \in DOMAIN farmers, e \in DOMAIN equipment,
          op \in DOMAIN operators :
          /\ nextPk.bookings <= MaxProtectingBookings
          /\ CreateBooking(f, e, op, 1, 1, LedgerTotal)
    \/ \E u \in users : DeleteUser(u)
    \/ \E f \in DOMAIN farmers : DeleteFarmerProfile(f)
    \/ \E o \in DOMAIN operators : DeleteOperatorProfile(o)
    \/ \E e \in DOMAIN equipment : DeleteEquipment(e)
    \/ \E b \in DOMAIN bookings : DeleteBooking(b)

SpecDelete == InitDelete /\ [][NextDelete]_vars

(* C10: a delete that would take away an Equipment or an OperatorProfile   *)
(* some booking references (directly, or down the cascade from the         *)
(* operator or the user) is refused and changes no record, so every        *)
(* booking always references an existing equipment unit and operator;      *)
(* images and maintenance logs go with their equipment.                    *)
C10_ReferencesExist ==
    /\ \A b \in DOMAIN bookings :
          /\ bookings[b].equipment \in DOMAIN equipment
          /\ bookings[b].operator \in DOMAIN operators
    /\ \A i \in DOMAIN images : images[i].equipment \in DOMAIN equipment
    /\ \A l \in DOMAIN logs : logs[l].equipment \in DOMAIN equipment
C10_ProtectOnDelete ==
    /\ []C10_ReferencesExist
    /\ [][/\ \A e \in (DOMAIN equipment) \ (DOMAIN equipment') :
                \A b \in DOMAIN bookings : bookings[b].equipment # e
          /\ \A o \in (DOMAIN operators) \ (DOMAIN operators') :
                \A b \in DOMAIN bookings : bookings[b].operator # o
          /\ result'.outcome = "ProtectedError" =>
                UNCHANGED <<users, farmers, operators, equipment, images,
                            logs, bookings, payments, payouts>>]_vars
\* operator 1 could not be deleted: its equipment is booked, in a booking
\* that names the other operator; the image is still there
C10_CascadeToBookedEquipmentRefused ==
    /\ result = DeleteOutcome("DeleteOperatorProfile", 1, "ProtectedError")
    /\ \E b \in DOMAIN bookings :
          /\ bookings[b].operator = 2
          /\ equipment[bookings[b].equipment].owner = 1
    /\ images # EmptyTable

====
